---- MODULE Spec2Model ----
(***************************************************************************)
(* Multi-identity persistence and session engine of the ASU Expense        *)
(* Tracker: the localStorage user store (utils/userStorage, found in       *)
(* src/src/utils/formatters.js), the AuthProvider (AuthContext.jsx), the   *)
(* ExpenseProvider reducer and its two effects (ExpenseContext.jsx) and    *)
(* the AuthModal handlers that call signIn.                                *)
(*                                                                         *)
(* Strings are sequences of one-character strings.  JavaScript null and    *)
(* undefined are the records Null and Undefined.                           *)
(***************************************************************************)
EXTENDS Integers, Sequences, FiniteSets, TLC

VARIABLES
  localStorage,   \* [registry, session, users]: the three key families of the store
  currentUser,    \* AuthProvider state: Null or [id, email, passwordHash]
  authReady,      \* AuthProvider state: TRUE once the restore effect has run
  state,          \* ExpenseProvider reducer state: [expenses, monthlyBudget]
  pendingLoad,    \* the deps of the load effect changed since effects last ran
  pendingPersist, \* the deps of the persist effect changed since effects last ran
  nextUuid,       \* number of uuids handed out so far (uuidv4 never repeats)
  lastCall,       \* history: the last signIn, signOut or Restore, if no other call followed it
  registeredHash, \* history: hash given at the last successful signIn of a stored id
  recent,         \* history: the last MAX_USERS + 1 registrations, oldest first
  hydrations      \* history: LOAD_EXPENSES dispatched since the last call or page load

vars == <<localStorage, currentUser, authReady, state, pendingLoad,
          pendingPersist, nextUuid, lastCall, registeredHash, recent, hydrations>>

\* ------------------------------------------------------------------ bounds
MaxExpenses == 2

\* ------------------------------------------------------- program constants
\* formatters.js:58 sets 200; the model runs the same code with a cap of 2
\* so that the eviction branch is reached with three identities.
MAX_USERS == 2

Null == [null |-> TRUE]
Undefined == [undefined |-> TRUE]

\* ------------------------------------------------------------ string helpers
Alnum == {"a", "b", "c", "x", "0", "1"}
Whitespace == {" "}

toLowerCaseChar(c) ==
  CASE c = "A" -> "a"
    [] c = "B" -> "b"
    [] c = "C" -> "c"
    [] c = "X" -> "x"
    [] OTHER -> c

toLowerCase(s) == [i \in 1..Len(s) |-> toLowerCaseChar(s[i])]

RECURSIVE trimStart(_)
trimStart(s) ==
  IF s /= <<>> /\ Head(s) \in Whitespace THEN trimStart(Tail(s)) ELSE s

RECURSIVE trimEnd(_)
trimEnd(s) ==
  IF s /= <<>> /\ s[Len(s)] \in Whitespace
  THEN trimEnd(SubSeq(s, 1, Len(s) - 1)) ELSE s

trim(s) == trimEnd(trimStart(s))

\* .replace(/[^a-z0-9]/g, '_')
replaceNonAlnum(s) == [i \in 1..Len(s) |-> IF s[i] \in Alnum THEN s[i] ELSE "_"]

\* .replace(/_+/g, '_')
RECURSIVE collapseUnderscores(_)
collapseUnderscores(s) ==
  IF Len(s) < 2 THEN s
  ELSE IF s[1] = "_" /\ s[2] = "_" THEN collapseUnderscores(Tail(s))
  ELSE <<s[1]>> \o collapseUnderscores(Tail(s))

\* .replace(/^_|_$/g, '')
stripEdgeUnderscore(s) ==
  LET a == IF s /= <<>> /\ Head(s) = "_" THEN Tail(s) ELSE s
  IN  IF a /= <<>> /\ a[Len(a)] = "_" THEN SubSeq(a, 1, Len(a) - 1) ELSE a

slice(s, from, to) == SubSeq(s, from + 1, IF to < Len(s) THEN to ELSE Len(s))

emailToUserId_caseSensitive(email) ==
  <<"u", "_">> \o
    slice(stripEdgeUnderscore(collapseUnderscores(replaceNonAlnum(
            trim(email)))), 0, 40)

emailToUserId(email) ==
  <<"u", "_">> \o
    slice(stripEdgeUnderscore(collapseUnderscores(replaceNonAlnum(
            trim(toLowerCase(email))))), 0, 40)

\* ------------------------------------------------------------------ inputs
\* What a user types into the e-mail field; the second is the first with an
\* upper-case letter and a trailing blank.
TypedEmails ==
  { <<"a", "@", "x", ".", "x">>,
    <<"A", "@", "x", ".", "x", " ">>,
    <<"b", "@", "x", ".", "x">>,
    <<"c", "@", "x", ".", "x">> }

\* Every account is registered with the first password; a returning user
\* types either of the two.
RegisterPasswords == {"hunter2x"}
Passwords == RegisterPasswords \cup {"wrong!"}

\* The string functions tabulated over the e-mails of the model (the input
\* as typed, and as AuthModal normalises it before it calls signIn).
Emails == TypedEmails \cup {toLowerCase(trim(e)) : e \in TypedEmails}
Normalized == [e \in Emails |-> toLowerCase(trim(e))]
UserIdOf == [e \in Emails |-> emailToUserId(e)]

UserIds == {UserIdOf[e] : e \in TypedEmails}

\* the amounts typed into the budget dialog
Budgets == {0, 50}

\* ------------------------------------------------------------ sequence helpers
includes(seq, x) == \E i \in 1..Len(seq) : seq[i] = x

Ids(expenses) == {expenses[i].id : i \in 1..Len(expenses)}

\* --------------------------------------------------------- credential hasher
\* utils/md5 is not among the sources: a deterministic one-way transform,
\* modelled as a constructor that is injective on its input.
md5(input) == [md5 |-> input]

HashInputOf == [e \in Emails |-> trim(toLowerCase(e))]

hashPassword(password, email) == md5(<<password, ":asu:", HashInputOf[email]>>)

\* ------------------------------------------------------------------ the store
getRegistry(ls) == ls.registry

saveRegistry(ls, reg) == [ls EXCEPT !.registry = reg]

getUserCount(ls) == Len(getRegistry(ls))

loadUserData(ls, userId) == ls.users[userId]

\* localStorage.removeItem(userKey(id))
removeUser(ls, id) == [ls EXCEPT !.users[id] = Null]

\* localStorage.setItem(userKey(id), JSON.stringify({...}))
setUser(ls, id, data) == [ls EXCEPT !.users[id] = data]

capReached_offByOne(registry) == Len(registry) > MAX_USERS

\* registry.length >= MAX_USERS
capReached(registry) == Len(registry) >= MAX_USERS

evictOldest_keepsData(ls, registry) ==
  [registry |-> Tail(registry), store |-> ls]

evictOldest_newest(ls, registry) ==
  [registry |-> SubSeq(registry, 1, Len(registry) - 1),
   store    |-> removeUser(ls, registry[Len(registry)])]

\* const evictId = registry.shift(); localStorage.removeItem(userKey(evictId))
evictOldest(ls, registry) ==
  [registry |-> Tail(registry), store |-> removeUser(ls, Head(registry))]

registerUser_touch(ls, registry, userId) ==
  IF includes(registry, userId)
  THEN saveRegistry(ls, Append(SelectSeq(registry, LAMBDA id : id /= userId), userId))
  ELSE LET e == IF capReached(registry) THEN evictOldest(ls, registry)
                ELSE [registry |-> registry, store |-> ls]
       IN  saveRegistry(e.store, Append(e.registry, userId))

\* the branch for a brand-new user: enforce the cap, append, save the registry
registerUser(ls, registry, userId) ==
  IF ~includes(registry, userId)
  THEN LET e == IF capReached(registry) THEN evictOldest(ls, registry)
                ELSE [registry |-> registry, store |-> ls]
       IN  saveRegistry(e.store, Append(e.registry, userId))
  ELSE ls

saveUserData(ls, userId, data) ==
  setUser(registerUser(ls, getRegistry(ls), userId), userId, data)

deleteUserData(ls, userId) ==
  LET registry == SelectSeq(getRegistry(ls), LAMBDA id : id /= userId)
  IN  removeUser(saveRegistry(ls, registry), userId)

getSessionUserId(ls) == ls.session

setSessionUserId(ls, userId) == [ls EXCEPT !.session = userId]

clearSession(ls) == [ls EXCEPT !.session = <<>>]

\* ---------------------------------------------------------------- the reducer
initialState == [expenses |-> <<>>, monthlyBudget |-> 0]

LOAD_EXPENSES_keepsBudget(st, payload) ==
  [st EXCEPT !.expenses = payload.expenses]

LOAD_EXPENSES(st, payload) ==
  [st EXCEPT !.expenses = payload.expenses, !.monthlyBudget = payload.budget]

ADD_EXPENSE_appends(st, payload) ==
  [st EXCEPT !.expenses = Append(st.expenses, payload)]

ADD_EXPENSE(st, payload) == [st EXCEPT !.expenses = <<payload>> \o st.expenses]

UPDATE_EXPENSE_upsert(st, payload) ==
  [st EXCEPT !.expenses =
     IF \E i \in 1..Len(st.expenses) : st.expenses[i].id = payload.id
     THEN [i \in 1..Len(st.expenses) |->
             IF st.expenses[i].id = payload.id THEN payload ELSE st.expenses[i]]
     ELSE <<payload>> \o st.expenses]

UPDATE_EXPENSE(st, payload) ==
  [st EXCEPT !.expenses =
     [i \in 1..Len(st.expenses) |->
        IF st.expenses[i].id = payload.id THEN payload ELSE st.expenses[i]]]

DELETE_EXPENSE(st, payload) ==
  [st EXCEPT !.expenses = SelectSeq(st.expenses, LAMBDA e : e.id /= payload)]

SET_BUDGET(st, payload) == [st EXCEPT !.monthlyBudget = payload]

\* ------------------------------------------------------------------- history
NoCall == [op |-> "none"]

\* the registrations window after a save of userId, which had the record stored
Registered(stored, userId) ==
  IF stored /= Null THEN recent
  ELSE LET r == Append(recent, userId)
       IN  IF Len(r) > MAX_USERS + 1 THEN Tail(r) ELSE r

\* hashes of the identities that still have a stored record
Forget(ls, hashes) ==
  [u \in UserIds |-> IF ls.users[u] = Null THEN Undefined ELSE hashes[u]]

\* ---------------------------------------------------------------------- Init
\* The store outlives the page: a first visit finds it empty, a visit after the
\* site data was partly cleared finds a session id without its record.
StaleEmail == <<"a", "@", "x", ".", "x">>

EmptyStore ==
  [registry |-> <<>>, session |-> <<>>, users |-> [u \in UserIds |-> Null]]

Init ==
  /\ localStorage \in {EmptyStore, setSessionUserId(EmptyStore, UserIdOf[StaleEmail])}
  /\ currentUser = Null
  /\ authReady = FALSE
  /\ state = initialState
  /\ pendingLoad = FALSE
  /\ pendingPersist = FALSE
  /\ nextUuid = 0
  /\ lastCall = NoCall
  /\ registeredHash = [u \in UserIds |-> Undefined]
  /\ recent = <<>>
  /\ hydrations = 0


\* ------------------------------------------- the save helper of AuthProvider
persistUserData_keepsBudget(ls, user, data) ==
  IF user = Null THEN ls
  ELSE saveUserData(ls, user.id,
         [profile  |-> [email |-> user.email, passwordHash |-> user.passwordHash],
          expenses |-> data.expenses,
          budget   |-> IF loadUserData(ls, user.id) = Null THEN 0
                       ELSE loadUserData(ls, user.id).budget])

persistUserData(ls, user, data) ==
  IF user = Null THEN ls
  ELSE saveUserData(ls, user.id,
         [profile  |-> [email |-> user.email, passwordHash |-> user.passwordHash],
          expenses |-> data.expenses,
          budget   |-> data.budget])

\* ------------------------------------------- the effects of ExpenseProvider
loadEffect_noGuard(ready, user, ls, st) ==
  LET stored  == IF user /= Null THEN loadUserData(ls, user.id) ELSE Null
      payload == IF stored /= Null
                 THEN [expenses |-> stored.expenses, budget |-> stored.budget]
                 ELSE [expenses |-> <<>>, budget |-> 0]
  IN  [state |-> LOAD_EXPENSES(st, payload), hydrated |-> TRUE]

loadEffect_keepsOnSignOut(ready, user, ls, st) ==
  IF ~ready \/ user = Null THEN [state |-> st, hydrated |-> FALSE]
  ELSE LET stored  == loadUserData(ls, user.id)
           payload == IF stored /= Null
                      THEN [expenses |-> stored.expenses, budget |-> stored.budget]
                      ELSE [expenses |-> <<>>, budget |-> 0]
       IN  [state |-> LOAD_EXPENSES(st, payload), hydrated |-> TRUE]

\* "Load data when auth state changes"
loadEffect(ready, user, ls, st) ==
  IF ~ready THEN [state |-> st, hydrated |-> FALSE]
  ELSE LET stored  == IF user /= Null THEN loadUserData(ls, user.id) ELSE Null
           payload == IF stored /= Null
                      THEN [expenses |-> stored.expenses, budget |-> stored.budget]
                      ELSE [expenses |-> <<>>, budget |-> 0]
       IN  [state |-> LOAD_EXPENSES(st, payload), hydrated |-> TRUE]

\* "Persist whenever expenses or budget change (signed-in users only)"
persistEffect(ready, user, ls, st) ==
  IF ~ready \/ user = Null THEN ls
  ELSE persistUserData(ls, user,
         [expenses |-> st.expenses, budget |-> st.monthlyBudget])

\* -------------------------------------------------------------- AuthProvider
\* The mount.  The effects of ExpenseProvider (the child) run first, with
\* authReady still false; then the restore effect runs.  Its two state
\* updates change the deps of both ExpenseProvider effects.
Restore ==
  /\ ~authReady
  /\ LET mounted == loadEffect(authReady, currentUser, localStorage, state)
         ls      == persistEffect(authReady, currentUser, localStorage, state)
         savedId == getSessionUserId(ls)
         stored  == loadUserData(ls, savedId)
     IN  /\ state' = mounted.state
         /\ hydrations' = IF mounted.hydrated THEN 1 ELSE 0
         /\ IF savedId /= <<>>
            THEN IF stored /= Null
                 THEN /\ currentUser' = [id |-> savedId,
                                         email |-> stored.profile.email,
                                         passwordHash |-> stored.profile.passwordHash]
                      /\ localStorage' = ls
                 ELSE /\ localStorage' = clearSession(ls)
                      /\ UNCHANGED currentUser
            ELSE localStorage' = ls /\ UNCHANGED currentUser
  /\ authReady' = TRUE
  /\ pendingLoad' = TRUE
  /\ pendingPersist' = TRUE
  /\ lastCall' = [op |-> "restore", savedId |-> getSessionUserId(localStorage)]
  /\ UNCHANGED <<nextUuid, registeredHash, recent>>

\* "returning user: verify password before doing anything else"
passwordRejected(stored, passwordHash) ==
  stored /= Null /\ stored.profile.passwordHash /= passwordHash

mergeGuestExpenses_appends(guestExpenses, expenses) ==
  LET fresh == SelectSeq(guestExpenses, LAMBDA e : e.id \notin Ids(expenses))
  IN  [expenses |-> expenses \o fresh, imported |-> Len(fresh) > 0]

mergeGuestExpenses_dropsGuest(guestExpenses, expenses) ==
  [expenses |-> expenses, imported |-> FALSE]

\* the guest expenses that are not stored yet, in front of the stored ones
mergeGuestExpenses(guestExpenses, expenses) ==
  IF Len(guestExpenses) > 0
  THEN LET existingIds == Ids(expenses)
           fresh == SelectSeq(guestExpenses, LAMBDA e : e.id \notin existingIds)
       IN  [expenses |-> fresh \o expenses, imported |-> Len(fresh) > 0]
  ELSE [expenses |-> expenses, imported |-> FALSE]

loadDepsChanged_object(user, id) == TRUE

\* the deps of the load effect, [authReady, currentUser?.id], after
\* setCurrentUser({ id, ...profile })
loadDepsChanged(user, id) == user = Null \/ user.id /= id

Failure == [success |-> FALSE, error |-> "Incorrect password. Please try again."]

signInRejected_afterSession(id, call) ==
  /\ lastCall' = call @@ [result |-> Failure]
  /\ localStorage' = setSessionUserId(localStorage, id)
  /\ hydrations' = 0
  /\ UNCHANGED <<currentUser, authReady, state, pendingLoad,
                 pendingPersist, nextUuid, registeredHash, recent>>

\* return { success: false, error }
signInRejected(id, call) ==
  /\ lastCall' = call @@ [result |-> Failure]
  /\ hydrations' = 0
  /\ UNCHANGED <<localStorage, currentUser, authReady, state, pendingLoad,
                 pendingPersist, nextUuid, registeredHash, recent>>

signIn(profile, passwordHash) ==
  LET id     == UserIdOf[profile.email]
      stored == loadUserData(localStorage, id)
      call   == [op |-> "signIn", id |-> id, passwordHash |-> passwordHash,
                 known |-> registeredHash[id] = passwordHash,
                 isNew |-> stored = Null,
                 prevUser |-> IF currentUser = Null THEN <<>> ELSE currentUser.id,
                 guest |-> state.expenses,
                 guestBudget |-> state.monthlyBudget,
                 budget |-> IF stored /= Null THEN stored.budget ELSE 0]
  IN  IF passwordRejected(stored, passwordHash)
      THEN signInRejected(id, call)
      ELSE LET guestExpenses == state.expenses   \* expensesRef.current
               merged == mergeGuestExpenses(guestExpenses,
                           IF stored /= Null THEN stored.expenses ELSE <<>>)
               budget == IF stored /= Null THEN stored.budget ELSE 0
               saved  == saveUserData(localStorage, id,
                           [profile  |-> [email |-> profile.email,
                                          passwordHash |-> passwordHash],
                            expenses |-> merged.expenses,
                            budget   |-> budget])
           IN  /\ localStorage' = setSessionUserId(saved, id)
               /\ currentUser' = [id |-> id, email |-> profile.email,
                                  passwordHash |-> profile.passwordHash]
               /\ pendingLoad' = loadDepsChanged(currentUser, id)
               /\ pendingPersist' = TRUE
               /\ lastCall' = call @@
                    [result |-> [success |-> TRUE, imported |-> merged.imported,
                                 count |-> Len(guestExpenses)]]
               /\ registeredHash' =
                    Forget(saved, [registeredHash EXCEPT ![id] = passwordHash])
               /\ recent' = Registered(stored, id)
               /\ hydrations' = 0
               /\ UNCHANGED <<authReady, state, nextUuid>>

signOut_keepsSession ==
  /\ currentUser' = Null
  /\ pendingLoad' = (currentUser /= Null)
  /\ pendingPersist' = (currentUser /= Null)
  /\ lastCall' = [op |-> "signOut",
                   prevUser |-> IF currentUser = Null THEN <<>> ELSE currentUser.id]
  /\ hydrations' = 0
  /\ UNCHANGED <<localStorage, authReady, state, nextUuid, registeredHash, recent>>

signOut_deletesData ==
  /\ localStorage' = clearSession(IF currentUser = Null THEN localStorage
                                  ELSE deleteUserData(localStorage, currentUser.id))
  /\ currentUser' = Null
  /\ pendingLoad' = (currentUser /= Null)
  /\ pendingPersist' = (currentUser /= Null)
  /\ lastCall' = [op |-> "signOut",
                   prevUser |-> IF currentUser = Null THEN <<>> ELSE currentUser.id]
  /\ hydrations' = 0
  /\ UNCHANGED <<authReady, state, nextUuid, registeredHash, recent>>

signOut ==
  /\ localStorage' = clearSession(localStorage)
  /\ currentUser' = Null
  /\ pendingLoad' = (currentUser /= Null)
  /\ pendingPersist' = (currentUser /= Null)
  /\ lastCall' = [op |-> "signOut",
                   prevUser |-> IF currentUser = Null THEN <<>> ELSE currentUser.id]
  /\ hydrations' = 0
  /\ UNCHANGED <<authReady, state, nextUuid, registeredHash, recent>>

\* ------------------------------------------------------------------ AuthModal
\* Event handlers run between renders: React flushes the pending effects
\* before it dispatches the next event.  The handlers are given input that
\* passes their field validation (a well-formed e-mail, a password of six
\* characters or more, typed twice alike).
Idle == authReady /\ ~pendingLoad /\ ~pendingPersist

\* step 'register': handleEmailSubmit found no stored profile
handleRegisterSubmit(email, pw) ==
  /\ Idle
  /\ loadUserData(localStorage, UserIdOf[Normalized[email]]) = Null
  /\ LET profile == [email |-> Normalized[email], passwordHash |-> Undefined]
     IN  signIn(profile, hashPassword(pw, profile.email))

\* step 'password': handleEmailSubmit found the profile of a returning user
handlePasswordSubmit(email, pw) ==
  /\ Idle
  /\ LET stored == loadUserData(localStorage, UserIdOf[Normalized[email]])
     IN  /\ stored /= Null
         /\ signIn([stored.profile EXCEPT !.email = Normalized[email]],
                   hashPassword(pw, email))

handleSignOut == Idle /\ signOut

\* ------------------------------------------------------------ ExpenseProvider
dispatch(reduced) ==
  /\ state' = reduced
  /\ hydrations' = 0
  /\ UNCHANGED <<localStorage, currentUser, authReady, pendingLoad,
                 registeredHash, recent>>

\* The record the form builds from a valid submission: an edit takes id and
\* createdAt from the record being edited, a new record gets a fresh uuid and
\* the current instant.  Instants are counted by the records created so far.
handleSubmit_newCreatedAt(expenseToEdit, uuid, now) ==
  IF expenseToEdit /= Null
  THEN [id |-> expenseToEdit.id, createdAt |-> now]
  ELSE [id |-> uuid, createdAt |-> now]

handleSubmit(expenseToEdit, uuid, now) ==
  IF expenseToEdit /= Null
  THEN [id |-> expenseToEdit.id, createdAt |-> expenseToEdit.createdAt]
  ELSE [id |-> uuid, createdAt |-> now]

addExpense ==
  /\ Idle
  /\ nextUuid < MaxExpenses
  /\ nextUuid' = nextUuid + 1
  /\ dispatch(ADD_EXPENSE(state, handleSubmit(Null, nextUuid + 1, nextUuid + 1)))
  /\ pendingPersist' = TRUE
  /\ lastCall' = NoCall

updateExpense(e) ==
  /\ Idle
  /\ dispatch(UPDATE_EXPENSE(state, e))
  /\ pendingPersist' = TRUE          \* map() returns a new array
  /\ lastCall' = NoCall
  /\ UNCHANGED nextUuid

deleteExpense(id) ==
  /\ Idle
  /\ dispatch(DELETE_EXPENSE(state, id))
  /\ pendingPersist' = TRUE          \* SelectSeq() returns a new array
  /\ lastCall' = NoCall
  /\ UNCHANGED nextUuid

setBudget(b) ==
  /\ Idle
  /\ dispatch(SET_BUDGET(state, b))
  /\ pendingPersist' = (b /= state.monthlyBudget)
  /\ lastCall' = NoCall
  /\ UNCHANGED nextUuid

\* One flush of the passive effects of ExpenseProvider, in declaration order:
\* the load effect reads the store and dispatches LOAD_EXPENSES, then the
\* persist effect writes the expenses and budget of the render that scheduled
\* it.  The dispatched state is what the next render sees; its new expenses
\* array changes the deps of the persist effect again.
RunEffects ==
  /\ authReady
  /\ pendingLoad \/ pendingPersist
  /\ LET loaded == IF pendingLoad
                   THEN loadEffect(authReady, currentUser, localStorage, state)
                   ELSE [state |-> state, hydrated |-> FALSE]
     IN  /\ state' = loaded.state
         /\ hydrations' = hydrations + (IF loaded.hydrated THEN 1 ELSE 0)
         /\ pendingPersist' = loaded.hydrated
         /\ localStorage' =
              IF pendingPersist
              THEN persistEffect(authReady, currentUser, localStorage, state)
              ELSE localStorage
  /\ pendingLoad' = FALSE
  /\ registeredHash' = Forget(localStorage', registeredHash)
  /\ recent' = IF pendingPersist /\ currentUser /= Null
               THEN Registered(loadUserData(localStorage, currentUser.id), currentUser.id)
               ELSE recent
  /\ UNCHANGED <<currentUser, authReady, nextUuid, lastCall>>

Reload_keepsLedger ==
  /\ authReady
  /\ currentUser' = Null
  /\ authReady' = FALSE
  /\ pendingLoad' = FALSE
  /\ pendingPersist' = FALSE
  /\ lastCall' = NoCall
  /\ hydrations' = 0
  /\ UNCHANGED <<localStorage, state, nextUuid, registeredHash, recent>>

\* The page is reloaded: the store stays, everything in memory starts over.
\* A reload can come between a commit and the effects it scheduled.
Reload ==
  /\ authReady
  /\ currentUser' = Null
  /\ authReady' = FALSE
  /\ state' = initialState
  /\ pendingLoad' = FALSE
  /\ pendingPersist' = FALSE
  /\ lastCall' = NoCall
  /\ hydrations' = 0
  /\ UNCHANGED <<localStorage, nextUuid, registeredHash, recent>>

\* the records the form can have been opened on, and what it submits for them
Created == {[id |-> n, createdAt |-> n] : n \in 1..MaxExpenses}
Expenses == {handleSubmit(e, nextUuid + 1, nextUuid + 1) : e \in Created}

Next ==
  \/ Restore
  \/ \E email \in TypedEmails, pw \in RegisterPasswords : handleRegisterSubmit(email, pw)
  \/ \E email \in TypedEmails, pw \in Passwords : handlePasswordSubmit(email, pw)
  \/ handleSignOut
  \/ addExpense
  \/ \E e \in Expenses : updateExpense(e)
  \/ \E id \in 1..MaxExpenses : deleteExpense(id)
  \/ \E b \in Budgets : setBudget(b)
  \/ RunEffects
  \/ Reload

Spec == Init /\ [][Next]_vars

\* The restore effect is a mount effect: React runs it once the first render
\* is committed.
LiveSpec == Init /\ [][Next]_vars /\ WF_vars(Restore)

\* ---------------------------------------------- the page as its buttons allow
\* The sign-in dialog is rendered only while nobody is signed in, and the
\* sign-out entry only while somebody is.
isAuthenticated == currentUser /= Null

UiNext ==
  \/ Restore
  \/ \E email \in TypedEmails, pw \in RegisterPasswords :
       ~isAuthenticated /\ handleRegisterSubmit(email, pw)
  \/ \E email \in TypedEmails, pw \in Passwords :
       ~isAuthenticated /\ handlePasswordSubmit(email, pw)
  \/ isAuthenticated /\ handleSignOut
  \/ addExpense
  \/ \E e \in Expenses : updateExpense(e)
  \/ \E id \in 1..MaxExpenses : deleteExpense(id)
  \/ \E b \in Budgets : setBudget(b)
  \/ RunEffects
  \/ Reload

UiSpec == Init /\ [][UiNext]_vars

\* ------------------------------------------------- the store out of quota
\* localStorage.setItem throws QuotaExceededError when the quota is used up
\* (or storage is disabled); removeItem does not.  failAt names the setItem
\* call that throws: the Registry key, the record key or the session key.
\* Nothing between the setItem calls and the caller of signIn, nor around the
\* persist effect, catches the error.
SetItemCalls == {"registry", "user", "session"}

\* saveUserData up to the setItem that throws
saveUserDataQuota(ls, userId, data, failAt) ==
  LET registry == getRegistry(ls)
      isNew    == ~includes(registry, userId)
      e        == IF isNew /\ capReached(registry) THEN evictOldest(ls, registry)
                  ELSE [registry |-> registry, store |-> ls]
  IN  IF isNew /\ failAt = "registry"
      THEN [store |-> e.store, thrown |-> TRUE]
      ELSE LET r == IF isNew THEN saveRegistry(e.store, Append(e.registry, userId))
                    ELSE ls
           IN  IF failAt = "user"
               THEN [store |-> r, thrown |-> TRUE]
               ELSE [store |-> setUser(r, userId, data), thrown |-> FALSE]

Uncaught(from) == [op |-> "uncaught", error |-> "QuotaExceededError", from |-> from]

\* signIn when one of its setItem calls throws: the error leaves signIn and
\* the submit handler before setCurrentUser is reached
signInQuota(profile, passwordHash, failAt) ==
  LET id     == UserIdOf[profile.email]
      stored == loadUserData(localStorage, id)
      merged == mergeGuestExpenses(state.expenses,
                  IF stored /= Null THEN stored.expenses ELSE <<>>)
      saved  == saveUserDataQuota(localStorage, id,
                  [profile  |-> [email |-> profile.email,
                                 passwordHash |-> passwordHash],
                   expenses |-> merged.expenses,
                   budget   |-> IF stored /= Null THEN stored.budget ELSE 0],
                  failAt)
  IN  /\ ~passwordRejected(stored, passwordHash)
      /\ saved.thrown \/ failAt = "session"
      /\ localStorage' = saved.store
      /\ lastCall' = Uncaught("signIn")
      /\ registeredHash' = Forget(saved.store, registeredHash)
      /\ hydrations' = 0
      /\ UNCHANGED <<currentUser, authReady, state, pendingLoad, pendingPersist,
                     nextUuid, recent>>

handleRegisterSubmitQuota(email, pw, failAt) ==
  /\ Idle
  /\ loadUserData(localStorage, UserIdOf[Normalized[email]]) = Null
  /\ LET profile == [email |-> Normalized[email], passwordHash |-> Undefined]
     IN  signInQuota(profile, hashPassword(pw, profile.email), failAt)

handlePasswordSubmitQuota(email, pw, failAt) ==
  /\ Idle
  /\ LET stored == loadUserData(localStorage, UserIdOf[Normalized[email]])
     IN  /\ stored /= Null
         /\ signInQuota([stored.profile EXCEPT !.email = Normalized[email]],
                        hashPassword(pw, email), failAt)

\* The persist effect throws.  No error boundary is mounted, so React unmounts
\* the whole tree: what was in memory is gone and the page is blank until it
\* is loaded again.
RunEffectsQuota(failAt) ==
  /\ authReady /\ pendingPersist /\ currentUser /= Null
  /\ LET saved == saveUserDataQuota(localStorage, currentUser.id,
                    [profile  |-> [email |-> currentUser.email,
                                   passwordHash |-> currentUser.passwordHash],
                     expenses |-> state.expenses,
                     budget   |-> state.monthlyBudget],
                    failAt)
     IN  /\ saved.thrown
         /\ localStorage' = saved.store
         /\ registeredHash' = Forget(saved.store, registeredHash)
  /\ currentUser' = Null
  /\ authReady' = FALSE
  /\ state' = initialState
  /\ pendingLoad' = FALSE
  /\ pendingPersist' = FALSE
  /\ lastCall' = Uncaught("persistEffect")
  /\ hydrations' = 0
  /\ UNCHANGED <<nextUuid, recent>>

\* Registration, the ledger and the effects, with a store that can run out
\* of quota at any write; after an unmount the next step is the page load.
QuotaNext ==
  \/ Restore
  \/ \E email \in TypedEmails, pw \in RegisterPasswords : handleRegisterSubmit(email, pw)
  \/ addExpense
  \/ RunEffects
  \/ \E email \in TypedEmails, pw \in RegisterPasswords, failAt \in SetItemCalls :
       handleRegisterSubmitQuota(email, pw, failAt)
  \/ \E email \in TypedEmails, pw \in Passwords, failAt \in SetItemCalls :
       handlePasswordSubmitQuota(email, pw, failAt)
  \/ \E failAt \in SetItemCalls : RunEffectsQuota(failAt)

QuotaSpec == Init /\ [][QuotaNext]_vars

\* ---------------------------------------------------- the store on its own
\* Any caller of the two exported writers of the store, with any arguments.
StoreData(email) ==
  [profile  : {[email |-> Normalized[email], passwordHash |-> h] :
                 h \in {Undefined, hashPassword("hunter2x", email)}},
   expenses : {<<>>, <<[id |-> 1]>>},
   budget   : Budgets]

StoreSave(email, data) ==
  /\ localStorage' = saveUserData(localStorage, UserIdOf[email], data)
  /\ recent' = Registered(loadUserData(localStorage, UserIdOf[email]), UserIdOf[email])
  /\ UNCHANGED <<currentUser, authReady, state, pendingLoad, pendingPersist,
                 nextUuid, lastCall, registeredHash, hydrations>>

StoreDelete(email) ==
  /\ localStorage' = deleteUserData(localStorage, UserIdOf[email])
  /\ UNCHANGED <<currentUser, authReady, state, pendingLoad, pendingPersist,
                 nextUuid, lastCall, registeredHash, recent, hydrations>>

StoreNext ==
  \/ \E email \in TypedEmails : \E data \in StoreData(email) : StoreSave(email, data)
  \/ \E email \in TypedEmails : StoreDelete(email)

StoreSpec == Init /\ [][StoreNext]_vars

\* ------------------------------------------------ emailToUserId on its own
\* E-mail addresses as they can be typed: two-letter local parts with and
\* without a separator, in either case, with blanks around them.
Locals ==
  { <<"a", ".", "b">>, <<"A", ".", "B">>, <<"a", "_", "b">>,
    <<"a", "-", "b">>, <<"a", "b">>, <<"a", "0">> }
Domains == { <<"x", ".", "x">>, <<"X", ".", "x">> }
Blanks == { <<>>, <<" ">> }

IdCorpus ==
  { before \o loc \o <<"@">> \o dom \o after :
      before \in Blanks, loc \in Locals, dom \in Domains, after \in Blanks }

\* any two addresses of the corpus, before the page has done anything
IdInit ==
  /\ localStorage = EmptyStore
  /\ currentUser = Null
  /\ authReady = FALSE
  /\ state = initialState
  /\ pendingLoad = FALSE
  /\ pendingPersist = FALSE
  /\ nextUuid = 0
  /\ lastCall \in {[op |-> "input", email1 |-> e1, email2 |-> e2] :
                     e1 \in IdCorpus, e2 \in IdCorpus}
  /\ registeredHash = [u \in UserIds |-> Undefined]
  /\ recent = <<>>
  /\ hydrations = 0

\* two calls of emailToUserId, their arguments and results kept
ResolveIds ==
  /\ lastCall.op = "input"
  /\ lastCall' = [op |-> "emailToUserId",
                   email1 |-> lastCall.email1, id1 |-> emailToUserId(lastCall.email1),
                   email2 |-> lastCall.email2, id2 |-> emailToUserId(lastCall.email2)]
  /\ UNCHANGED <<localStorage, currentUser, authReady, state, pendingLoad,
                 pendingPersist, nextUuid, registeredHash, recent, hydrations>>

IdNext == ResolveIds

IdSpec == IdInit /\ [][IdNext]_vars

\* ---------------------------------------------- validateExpense on its own
VALIDATION_RULES ==
  [title       |-> [minLength |-> 2, maxLength |-> 80],
   amount      |-> [max |-> 1000000],
   description |-> [maxLength |-> 300]]

\* the value fields of CATEGORIES
CategoryValues ==
  {"food", "transport", "education", "entertainment", "health", "shopping",
   "housing", "utilities", "travel", "subscriptions", "other"}

\* Numbers are held in thousandths, so that 0.01 and 5.555 are integers.
Milli == 1000
NaN == [nan |-> TRUE, value |-> 0]
Finite(v) == [nan |-> FALSE, value |-> v]
isNaN(n) == n.nan

Digits == {"0", "1", "5"}
DigitValue == [d \in Digits |-> CASE d = "0" -> 0 [] d = "1" -> 1 [] d = "5" -> 5]

isDigits(s) == \A i \in 1..Len(s) : s[i] \in Digits

RECURSIVE digitsValue(_)
digitsValue(s) ==
  IF s = <<>> THEN 0
  ELSE digitsValue(SubSeq(s, 1, Len(s) - 1)) * 10 + DigitValue[s[Len(s)]]

\* index of the first "." of s, or 0
indexOfDot(s) ==
  IF \E i \in 1..Len(s) : s[i] = "."
  THEN CHOOSE i \in 1..Len(s) : s[i] = "." /\ \A j \in 1..(i - 1) : s[j] /= "."
  ELSE 0

intDigits(s) == IF indexOfDot(s) = 0 THEN s ELSE SubSeq(s, 1, indexOfDot(s) - 1)
fracDigits(s) == IF indexOfDot(s) = 0 THEN <<>> ELSE SubSeq(s, indexOfDot(s) + 1, Len(s))

\* Number(raw) of a string: blanks around it are skipped, the empty string is
\* 0, an optional sign, digits with an optional fraction; anything else is NaN
Number(raw) ==
  LET t    == trim(raw)
      neg  == t /= <<>> /\ Head(t) = "-"
      body == IF neg THEN Tail(t) ELSE t
      int  == intDigits(body)
      frac == fracDigits(body)
      abs  == digitsValue(int) * Milli
                + digitsValue(SubSeq(frac \o <<"0", "0", "0">>, 1, 3))
  IN  IF t = <<>> THEN Finite(0)
      ELSE IF isDigits(int) /\ isDigits(frac) /\ Len(int) + Len(frac) > 0
                /\ Len(frac) <= 3
           THEN Finite(IF neg THEN 0 - abs ELSE abs)
           ELSE NaN

\* /^\d+(\.\d{1,2})?$/.test(String(rawAmount).trim())
amountPattern(raw) ==
  LET t == trim(raw)
  IN  /\ Len(intDigits(t)) > 0 /\ isDigits(intDigits(t))
      /\ indexOfDot(t) /= 0 =>
           (Len(fracDigits(t)) \in 1..2 /\ isDigits(fracDigits(t)))

\* Instants are hours since the epoch, UTC; offset is what local time is ahead
\* of UTC.  new Date("YYYY-MM-DD") is midnight UTC of that day.
HoursPerDay == 24

\* the value of a date input that was cleared
NoDate == [empty |-> TRUE]
dateOnly(date) == date.day * HoursPerDay

localDay(now, offset) == (now + offset) \div HoursPerDay

\* today.setHours(23, 59, 59, 999): one millisecond before the next local
\* midnight.  The value is that midnight; an instant on a whole hour is later
\* than the end of the day exactly when it is not before that midnight.
endOfToday(now, offset) == (localDay(now, offset) + 1) * HoursPerDay - offset

titleError(title) ==
  IF title = <<>> \/ trim(title) = <<>> THEN TRUE
  ELSE IF Len(trim(title)) < VALIDATION_RULES.title.minLength THEN TRUE
  ELSE Len(trim(title)) > VALIDATION_RULES.title.maxLength

amountError(rawAmount) ==
  IF rawAmount = <<>> THEN TRUE
  ELSE LET numericAmount == Number(rawAmount)
       IN  IF isNaN(numericAmount) THEN TRUE
           ELSE IF numericAmount.value <= 0 THEN TRUE
           ELSE IF numericAmount.value > VALIDATION_RULES.amount.max * Milli THEN TRUE
           ELSE ~amountPattern(rawAmount)

categoryError(category) == category = ""

descriptionError(description) ==
  description /= <<>> /\ Len(description) > VALIDATION_RULES.description.maxLength

dateError(date, now, offset) ==
  IF date = NoDate THEN TRUE
  ELSE dateOnly(date) >= endOfToday(now, offset)

validateExpense(formData, now, offset) ==
  LET errors ==
        {f \in {"title", "amount", "category", "description", "date"} :
           CASE f = "title"       -> titleError(formData.title)
             [] f = "amount"      -> amountError(formData.amount)
             [] f = "category"    -> categoryError(formData.category)
             [] f = "description" -> descriptionError(formData.description)
             [] f = "date"        -> dateError(formData.date, now, offset)}
  IN  [isValid |-> errors = {}, errors |-> errors]

\* ---- what is typed into the form, and when and where
Rep(c, n) == [i \in 1..n |-> c]

Titles ==
  { <<>>, <<" ", " ">>, <<" ", "t", " ">>, Rep("t", 2), <<" ">> \o Rep("t", 2),
    Rep("t", 80), Rep("t", 80) \o <<" ">>, Rep("t", 81) }

Amounts ==
  { <<>>, <<"0">>, <<"0", ".", "0", "1">>, <<"5">>, <<" ", "5", " ">>,
    <<"5", ".", "5">>, <<"5", ".", "5", "5">>, <<"5", ".", "5", "5", "5">>,
    <<"1", "0", "0", "0", "0", "0", "0">>,
    <<"1", "0", "0", "0", "0", "0", "0", ".", "0", "1">>,
    <<"-", "5">>, <<"a", "b", "c">> }

Categories == {"", "food", "other", "crypto"}

Descriptions == { <<>>, Rep("d", 300), Rep("d", 301) }

\* a day, and the days around it
Day0 == 20000
Dates == {NoDate} \cup {[day |-> d] : d \in (Day0 - 1)..(Day0 + 2)}

\* early and late on Day0, UTC
Nows == {Day0 * HoursPerDay + 2, Day0 * HoursPerDay + 20}

\* Phoenix, UTC, Tokyo
Offsets == {0 - 7, 0, 9}

FormData ==
  [title : Titles, amount : Amounts, category : Categories,
   description : Descriptions, date : Dates]

ValidateInit ==
  /\ localStorage = EmptyStore
  /\ currentUser = Null
  /\ authReady = FALSE
  /\ state = initialState
  /\ pendingLoad = FALSE
  /\ pendingPersist = FALSE
  /\ nextUuid = 0
  /\ lastCall \in [op : {"input"}, formData : FormData, now : Nows, offset : Offsets]
  /\ registeredHash = [u \in UserIds |-> Undefined]
  /\ recent = <<>>
  /\ hydrations = 0

Validate ==
  /\ lastCall.op = "input"
  /\ lastCall' = [op |-> "validateExpense", formData |-> lastCall.formData,
                   now |-> lastCall.now, offset |-> lastCall.offset,
                   result |-> validateExpense(lastCall.formData, lastCall.now,
                                              lastCall.offset)]
  /\ UNCHANGED <<localStorage, currentUser, authReady, state, pendingLoad,
                 pendingPersist, nextUuid, registeredHash, recent, hydrations>>

ValidateNext == Validate

ValidateSpec == ValidateInit /\ [][ValidateNext]_vars

\* ------------------------------------------- the derived values on their own
\* Expense records as the form builds them: amounts in cents, dates as
\* calendar days, titles and descriptions as character sequences.
MaxLedger == 3

Day(y, m, d) == [year |-> y, month |-> m, day |-> d]

Records ==
  { [id |-> 1, title |-> <<"C", "a", "b">>, description |-> <<>>,
     category |-> "food", amount |-> 250, date |-> Day(2025, 1, 15)],
    [id |-> 2, title |-> <<"b", "b">>, description |-> <<"a", "x">>,
     category |-> "food", amount |-> 250, date |-> Day(2025, 1, 20)],
    [id |-> 3, title |-> <<"B", "b">>, description |-> <<>>,
     category |-> "transport", amount |-> 1000, date |-> Day(2024, 1, 15)],
    [id |-> 4, title |-> <<"a", "b", "c">>, description |-> <<"X">>,
     category |-> "other", amount |-> 75, date |-> Day(2025, 1, 15)],
    [id |-> 5, title |-> <<"b", "b">>, description |-> <<>>,
     category |-> "transport", amount |-> 1, date |-> Day(2025, 2, 1)],
    [id |-> 6, title |-> <<"x", " ", "a">>, description |-> <<"c", "a", "b">>,
     category |-> "other", amount |-> 250, date |-> Day(2024, 12, 31)] }

\* collections of pairwise different records, as the ledger holds them
Ledgers ==
  { l \in UNION {[1..n -> Records] : n \in 0..MaxLedger} :
      \A i, j \in 1..Len(l) : i /= j => l[i] /= l[j] }

RecordCategories == {"food", "transport", "other", "health"}

\* String.prototype.includes
stringIncludes(s, q) ==
  \E i \in 0..(Len(s) - Len(q)) : SubSeq(s, i + 1, i + Len(q)) = q

\* the time value of new Date(dateString), up to a monotone scale
timeValue(date) == (date.year * 12 + (date.month - 1)) * 31 + date.day

sign(n) == IF n < 0 THEN 0 - 1 ELSE IF n > 0 THEN 1 ELSE 0

\* String.prototype.localeCompare: letters compare without regard to case
\* first, and the lower-case letter goes first where only the case differs
CharRank(c) ==
  CASE c = " " -> 0
    [] c = "a" -> 1
    [] c = "b" -> 2
    [] c = "c" -> 3
    [] c = "x" -> 4
    [] OTHER -> 5

CaseRank(c) == IF toLowerCaseChar(c) = c THEN 0 ELSE 1

RECURSIVE compareRanks(_, _)
compareRanks(a, b) ==
  IF a = <<>> /\ b = <<>> THEN 0
  ELSE IF a = <<>> THEN 0 - 1
  ELSE IF b = <<>> THEN 1
  ELSE IF Head(a) /= Head(b) THEN sign(Head(a) - Head(b))
  ELSE compareRanks(Tail(a), Tail(b))

localeCompare(a, b) ==
  LET primary == compareRanks([i \in 1..Len(a) |-> CharRank(toLowerCaseChar(a[i]))],
                              [i \in 1..Len(b) |-> CharRank(toLowerCaseChar(b[i]))])
  IN IF primary /= 0 THEN primary
     ELSE compareRanks([i \in 1..Len(a) |-> CaseRank(a[i])],
                       [i \in 1..Len(b) |-> CaseRank(b[i])])

SortKeys ==
  {"date_desc", "date_asc", "amount_desc", "amount_asc", "title_asc",
   "title_desc", "none"}

\* the comparator handed to list.sort
compareFn(a, b, sortBy) ==
  CASE sortBy = "date_desc" -> timeValue(b.date) - timeValue(a.date)
    [] sortBy = "date_asc" -> timeValue(a.date) - timeValue(b.date)
    [] sortBy = "amount_desc" -> b.amount - a.amount
    [] sortBy = "amount_asc" -> a.amount - b.amount
    [] sortBy = "title_asc" -> localeCompare(a.title, b.title)
    [] sortBy = "title_desc" -> localeCompare(b.title, a.title)
    [] OTHER -> 0

RECURSIVE insertSorted_unstable(_, _, _)
insertSorted_unstable(sorted, x, sortBy) ==
  IF sorted = <<>> THEN <<x>>
  ELSE IF compareFn(Head(sorted), x, sortBy) >= 0 THEN <<x>> \o sorted
  ELSE <<Head(sorted)>> \o insertSorted_unstable(Tail(sorted), x, sortBy)

\* Array.prototype.sort is stable: an element goes behind every element
\* that does not compare greater
RECURSIVE insertSorted(_, _, _)
insertSorted(sorted, x, sortBy) ==
  IF sorted = <<>> THEN <<x>>
  ELSE IF compareFn(Head(sorted), x, sortBy) > 0 THEN <<x>> \o sorted
  ELSE <<Head(sorted)>> \o insertSorted(Tail(sorted), x, sortBy)

RECURSIVE sort(_, _)
sort(list, sortBy) ==
  IF list = <<>> THEN <<>>
  ELSE insertSorted(sort(SubSeq(list, 1, Len(list) - 1), sortBy),
                    list[Len(list)], sortBy)

matchesQuery(e, q) ==
  \/ stringIncludes(toLowerCase(e.title), q)
  \/ (e.description /= <<>> /\ stringIncludes(toLowerCase(e.description), q))

\* The two arrays of getFiltered after each statement: the one it was handed
\* and the one bound to list. list starts as a copy, filter binds list to a
\* new array, and sort reorders the array bound to list in place.
getFilteredArrays(expenses, filterCategory, searchQuery, sortBy) ==
  LET copied == [expenses |-> expenses, list |-> expenses]
      byCategory ==
        IF filterCategory /= "all"
        THEN [copied EXCEPT !.list =
                SelectSeq(@, LAMBDA e : e.category = filterCategory)]
        ELSE copied
      byQuery ==
        IF trim(searchQuery) /= <<>>
        THEN [byCategory EXCEPT !.list =
                SelectSeq(@, LAMBDA e : matchesQuery(e, toLowerCase(searchQuery)))]
        ELSE byCategory
  IN [byQuery EXCEPT !.list = sort(@, sortBy)]

getFiltered(expenses, filterCategory, searchQuery, sortBy) ==
  getFilteredArrays(expenses, filterCategory, searchQuery, sortBy).list

\* expenses.reduce((acc, e) => { acc[e.category] = (acc[e.category] || 0) + e.amount })
RECURSIVE reduceCategoryTotals(_, _)
reduceCategoryTotals(acc, expenses) ==
  IF expenses = <<>> THEN acc
  ELSE LET e == Head(expenses)
           before == IF e.category \in DOMAIN acc THEN acc[e.category] ELSE 0
       IN reduceCategoryTotals(
            [c \in DOMAIN acc \cup {e.category} |->
               IF c = e.category THEN before + e.amount ELSE acc[c]],
            Tail(expenses))

getCategoryTotals_skipsFirst(expenses) ==
  reduceCategoryTotals([c \in {} |-> 0],
                       IF expenses = <<>> THEN <<>> ELSE Tail(expenses))

getCategoryTotals(expenses) == reduceCategoryTotals([c \in {} |-> 0], expenses)

\* expenses.reduce((s, e) => s + e.amount, 0)
RECURSIVE sumAmounts(_)
sumAmounts(expenses) ==
  IF expenses = <<>> THEN 0
  ELSE sumAmounts(SubSeq(expenses, 1, Len(expenses) - 1))
         + expenses[Len(expenses)].amount

totalExpenses(expenses) == sumAmounts(expenses)

\* a ledger as the provider holds it, before any derived value is computed
LedgerInit ==
  /\ localStorage = EmptyStore
  /\ currentUser = Null
  /\ authReady = FALSE
  /\ state = initialState
  /\ pendingLoad = FALSE
  /\ pendingPersist = FALSE
  /\ nextUuid = 0
  /\ lastCall \in {[op |-> "input", expenses |-> l] : l \in Ledgers}
  /\ registeredHash = [u \in UserIds |-> Undefined]
  /\ recent = <<>>
  /\ hydrations = 0

\* the totals the provider derives, and the list filtered by each category
Totals ==
  /\ lastCall.op = "input"
  /\ lastCall' = [op |-> "totals", expenses |-> lastCall.expenses,
                   categoryTotals |-> getCategoryTotals(lastCall.expenses),
                   totalExpenses |-> totalExpenses(lastCall.expenses),
                   byCategory |->
                     [c \in RecordCategories |->
                        getFiltered(lastCall.expenses, c, <<>>, "date_desc")]]
  /\ UNCHANGED <<localStorage, currentUser, authReady, state, pendingLoad,
                 pendingPersist, nextUuid, registeredHash, recent, hydrations>>

\* ---- the spend of the current month against the budget
\* the local month and year of new Date()
Todays == { [year |-> 2025, month |-> 1], [year |-> 2024, month |-> 1],
            [year |-> 2025, month |-> 2] }

\* budgets in cents: none, negative (from a stored record), small and large
MonthlyBudgets == {0 - 100, 0, 1, 250, 500, 10000}

getCurrentMonthTotal(expenses, now) ==
  sumAmounts(SelectSeq(expenses,
                       LAMBDA e : /\ e.date.month = now.month
                                  /\ e.date.year = now.year))

\* quotients are kept as fractions with a positive denominator
Fraction(n, d) == [num |-> n, den |-> d]

mathMin(a, b) == IF a.num * b.den <= b.num * a.den THEN a ELSE b

budgetUsedPercent_uncapped(currentMonthTotal, monthlyBudget) ==
  IF monthlyBudget > 0
  THEN Fraction(currentMonthTotal * 100, monthlyBudget)
  ELSE Fraction(0, 1)

budgetUsedPercent(currentMonthTotal, monthlyBudget) ==
  IF monthlyBudget > 0
  THEN mathMin(Fraction(currentMonthTotal * 100, monthlyBudget),
               Fraction(100, 1))
  ELSE Fraction(0, 1)

Utilization(now, monthlyBudget) ==
  /\ lastCall.op = "input"
  /\ LET currentMonthTotal == getCurrentMonthTotal(lastCall.expenses, now) IN
     lastCall' = [op |-> "budgetUsedPercent", expenses |-> lastCall.expenses,
                  now |-> now, monthlyBudget |-> monthlyBudget,
                  currentMonthTotal |-> currentMonthTotal,
                  result |-> budgetUsedPercent(currentMonthTotal, monthlyBudget)]
  /\ UNCHANGED <<localStorage, currentUser, authReady, state, pendingLoad,
                 pendingPersist, nextUuid, registeredHash, recent, hydrations>>

\* ---- the list grouped by month
MonthNames ==
  <<"January", "February", "March", "April", "May", "June", "July",
    "August", "September", "October", "November", "December">>

\* toLocaleDateString('en-US', { year: 'numeric', month: 'long' }) of the
\* local midnight of the day: the name of the month and the year
getMonthYear_monthOnly(date) == <<MonthNames[date.month], 0>>

getMonthYear(date) == <<MonthNames[date.month], date.year>>

\* groups[key].push(exp), a new key going behind the keys already there
RECURSIVE pushToGroup(_, _, _)
pushToGroup(groups, key, exp) ==
  IF groups = <<>> THEN << [key |-> key, items |-> <<exp>>] >>
  ELSE IF Head(groups).key = key
  THEN << [key |-> key, items |-> Append(Head(groups).items, exp)] >>
         \o Tail(groups)
  ELSE <<Head(groups)>> \o pushToGroup(Tail(groups), key, exp)

RECURSIVE groupByMonth(_)
groupByMonth(expenses) ==
  IF expenses = <<>> THEN <<>>
  ELSE pushToGroup(groupByMonth(SubSeq(expenses, 1, Len(expenses) - 1)),
                   getMonthYear(expenses[Len(expenses)].date),
                   expenses[Len(expenses)])

Group ==
  /\ lastCall.op = "input"
  /\ lastCall' = [op |-> "groupByMonth", expenses |-> lastCall.expenses,
                   result |-> groupByMonth(lastCall.expenses)]
  /\ UNCHANGED <<localStorage, currentUser, authReady, state, pendingLoad,
                 pendingPersist, nextUuid, registeredHash, recent, hydrations>>

\* ---- the reducer on a ledger of full records
\* what the form submits for a record being edited: the same id, other contents
Edits == {[r EXCEPT !.title = <<"x">>, !.amount = @ + 5] : r \in Records}

Reduce(type, payload) ==
  /\ lastCall.op = "input"
  /\ LET st == [initialState EXCEPT !.expenses = lastCall.expenses] IN
     lastCall' = [op |-> type, expenses |-> lastCall.expenses,
                  payload |-> payload,
                  result |-> CASE type = "ADD_EXPENSE" -> ADD_EXPENSE(st, payload)
                               [] type = "UPDATE_EXPENSE" -> UPDATE_EXPENSE(st, payload)
                               [] type = "DELETE_EXPENSE" -> DELETE_EXPENSE(st, payload)]
  /\ UNCHANGED <<localStorage, currentUser, authReady, state, pendingLoad,
                 pendingPersist, nextUuid, registeredHash, recent, hydrations>>

\* ---- the filtered and sorted list
FilterCategories == {"all"} \cup RecordCategories

\* what can stand in the search box: nothing, a blank, letters in either
\* case, a letter found in a description only, no match, a leading blank
SearchQueries ==
  { <<>>, <<" ">>, <<"a", "b">>, <<"A", "B">>, <<"x">>, <<"x", "x">>,
    <<" ", "a">> }

\* getFiltered sorts the copy it made with [...expenses]; the array it was
\* handed is the one the state still holds afterwards
Filter(filterCategory, searchQuery, sortBy) ==
  /\ lastCall.op = "input"
  /\ lastCall' = [op |-> "getFiltered", expenses |-> lastCall.expenses,
                   filterCategory |-> filterCategory,
                   searchQuery |-> searchQuery, sortBy |-> sortBy,
                   result |-> getFiltered(lastCall.expenses, filterCategory,
                                          searchQuery, sortBy),
                   expensesAfter |->
                     getFilteredArrays(lastCall.expenses, filterCategory,
                                       searchQuery, sortBy).expenses]
  /\ UNCHANGED <<localStorage, currentUser, authReady, state, pendingLoad,
                 pendingPersist, nextUuid, registeredHash, recent, hydrations>>

LedgerNext ==
  \/ Totals
  \/ \E c \in FilterCategories, q \in SearchQueries, k \in SortKeys :
       Filter(c, q, k)
  \/ \E e \in Records : e.id \notin Ids(lastCall.expenses)
                          /\ Reduce("ADD_EXPENSE", e)
  \/ \E e \in Edits : Reduce("UPDATE_EXPENSE", e)
  \/ \E e \in Records : Reduce("DELETE_EXPENSE", e.id)
  \/ Group
  \/ \E now \in Todays, b \in MonthlyBudgets : Utilization(now, b)

LedgerSpec == LedgerInit /\ [][LedgerNext]_vars

\* ================================================================== claims
Registry == localStorage.registry
Users == localStorage.users
Session == localStorage.session

NoDuplicates(seq) == \A i, j \in 1..Len(seq) : seq[i] = seq[j] => i = j

IsSignIn(call) == call.op = "signIn"
Succeeded(call) == IsSignIn(call) /\ call.result.success

\* a step of either AuthModal handler that ends in signIn
SignInStep(email, pw) ==
  handleRegisterSubmit(email, pw) \/ handlePasswordSubmit(email, pw)

\* C1: registering an e-mail that has no stored record succeeds and creates one
\* identity, and every later signIn with the hash the identity was last signed
\* in with succeeds, whatever write-backs and sign-outs came in between.
C1_RegisteredPasswordSignsIn ==
  IsSignIn(lastCall) =>
    /\ lastCall.isNew =>
         /\ Succeeded(lastCall)
         /\ Cardinality({i \in 1..Len(Registry) : Registry[i] = lastCall.id}) = 1
    /\ lastCall.known => Succeeded(lastCall)

\* C2: a signIn that returns failure leaves the session id, the current user,
\* the Registry, every stored record and the ledger as they were.
C2_RejectedSignInChangesNothing ==
  [][(IsSignIn(lastCall') /\ ~lastCall'.result.success) =>
       \A email \in TypedEmails, pw \in Passwords :
         SignInStep(email, pw) => UNCHANGED <<localStorage, currentUser, state>>]_vars

C2_Witness ==
  /\ IsSignIn(lastCall) /\ ~lastCall.result.success
  /\ lastCall.result = Failure
  /\ Session /= <<>> /\ currentUser /= Null /\ state.expenses /= <<>>

\* C3: the Registry never holds an id twice and never more than MAX_USERS ids.
C3_RegistryBounded ==
  NoDuplicates(Registry) /\ Len(Registry) <= MAX_USERS

C3_Witness ==
  /\ Len(recent) = MAX_USERS + 1
  /\ Len(Registry) = MAX_USERS

\* C4: the Registry holds the last MAX_USERS registrations in registration
\* order; once MAX_USERS + 1 identities were registered the first of them is
\* out of the Registry and has no record, and the others have theirs.
C4_OldestEvicted ==
  /\ Registry = IF Len(recent) > MAX_USERS THEN Tail(recent) ELSE recent
  /\ Len(recent) > MAX_USERS => Users[Head(recent)] = Null
  /\ \A i \in 1..Len(Registry) : Users[Registry[i]] /= Null

C4_Witness ==
  /\ Succeeded(lastCall) /\ lastCall.isNew
  /\ Len(recent) = MAX_USERS + 1
  /\ Users[Head(recent)] = Null

\* C5: an id is in the Registry exactly when a record is stored for it.
C5_RegistryMatchesRecords ==
  \A u \in UserIds : includes(Registry, u) <=> Users[u] /= Null

\* an eviction, then a delete
C5_Witness ==
  /\ Len(recent) = MAX_USERS + 1
  /\ Len(Registry) = MAX_USERS - 1
  /\ Users[Head(recent)] = Null


\* C6: the Registry changes only when an id that is not in it is saved, by
\* dropping its first id if it is full and appending the new id: a save of,
\* a write-back to or a sign-in to an id it holds leaves it as it is, so the id
\* evicted is the one registered first, however recently it was used.
C6_FifoByRegistration ==
  [][\/ Registry' = Registry
     \/ \E u \in UserIds :
          /\ ~includes(Registry, u)
          /\ Registry' = Append(IF Len(Registry) >= MAX_USERS
                                THEN Tail(Registry) ELSE Registry, u)]_vars

\* the identity that was active when a new one was registered is the evicted one
C6_Witness ==
  /\ Succeeded(lastCall) /\ lastCall.isNew
  /\ Len(recent) = MAX_USERS + 1
  /\ lastCall.prevUser = Head(recent)

\* C7: once Restore has run, a persisted session id has a stored record and
\* is the id of the current user; a session id that Restore found without a
\* record is cleared and nobody is signed in.
C7_SessionResolves ==
  /\ (authReady /\ Session /= <<>>) =>
       /\ Users[Session] /= Null
       /\ currentUser /= Null
       /\ currentUser.id = Session
  /\ (lastCall.op = "restore" /\ lastCall.savedId /= <<>>
        /\ Users[lastCall.savedId] = Null) =>
       (authReady /\ Session = <<>> /\ currentUser = Null)

C7_Witness ==
  /\ lastCall.op = "restore" /\ lastCall.savedId /= <<>>
  /\ Users[lastCall.savedId] = Null
  /\ Idle

\* C8: a successful signIn stores the guest records whose id the account did
\* not have, in guest order, in front of the records the account had, which
\* keep their order.
C8_GuestRecordsPrepended ==
  [][Succeeded(lastCall') =>
       \A email \in TypedEmails, pw \in Passwords :
         SignInStep(email, pw) =>
           LET id    == UserIdOf[Normalized[email]]
               old   == IF Users[id] = Null THEN <<>> ELSE Users[id].expenses
               fresh == SelectSeq(state.expenses,
                          LAMBDA g : \A i \in 1..Len(old) : old[i].id /= g.id)
           IN  Users'[id].expenses = fresh \o old]_vars

C8_Witness ==
  /\ Succeeded(lastCall) /\ pendingLoad /\ pendingPersist
  /\ lastCall.guest /= <<>> /\ lastCall.result.imported
  /\ Len(Users[lastCall.id].expenses) > Len(lastCall.guest)

\* C9: a signIn that follows a successful signIn with the same e-mail and
\* password, with no other call in between, succeeds, reports imported = false
\* and leaves the stored collection as it was, without a duplicated id.
C9_SecondSignInImportsNothing ==
  [][(Succeeded(lastCall) /\ IsSignIn(lastCall')) =>
       \A email \in TypedEmails, pw \in Passwords :
         ( /\ lastCall.id = UserIdOf[Normalized[email]]
           /\ lastCall.passwordHash = hashPassword(pw, email)
           /\ SignInStep(email, pw) ) =>
           LET id == UserIdOf[Normalized[email]]
           IN  /\ lastCall'.result.success
               /\ lastCall'.result.imported = FALSE
               /\ Users'[id].expenses = Users[id].expenses
               /\ NoDuplicates([i \in 1..Len(Users'[id].expenses) |->
                                  Users'[id].expenses[i].id])]_vars

\* C10: after a guest signed in as a new user and the effects have run, the
\* stored collection of the account and the ledger are the guest's records.
C10_GuestImportSettles ==
  (Succeeded(lastCall) /\ lastCall.isNew /\ lastCall.prevUser = <<>> /\ Idle) =>
    /\ Users[lastCall.id].expenses = lastCall.guest
    /\ state.expenses = lastCall.guest

C10_Witness ==
  /\ Succeeded(lastCall) /\ lastCall.isNew /\ lastCall.prevUser = <<>> /\ Idle
  /\ Len(lastCall.guest) = 2

\* C11: once the effects that follow a successful signIn have run, the stored
\* budget of the identity is the budget it had stored before the signIn (0 for
\* a new identity), whatever budget the ledger held when signIn was called.
C11_SignInKeepsBudget ==
  (Succeeded(lastCall) /\ Idle) =>
    /\ Users[lastCall.id] /= Null
    /\ Users[lastCall.id].budget = lastCall.budget
    /\ lastCall.isNew => Users[lastCall.id].budget = 0

\* a guest with a budget signs in as a new user; a user with a budget signs in
\* to an account stored without one
C11_Witness ==
  /\ Succeeded(lastCall) /\ Idle
  /\ lastCall.guestBudget /= lastCall.budget
  /\ lastCall.guest /= <<>>

\* C12: signOut clears the persisted session id and leaves nobody signed in,
\* and neither signOut nor the effects that run after it change the Registry
\* or any stored record.
C12_SignOutKeepsRecords ==
  [][/\ (lastCall'.op = "signOut" /\ handleSignOut) =>
          /\ Session' = <<>> /\ currentUser' = Null
          /\ Registry' = Registry /\ Users' = Users
     /\ (lastCall.op = "signOut" /\ lastCall' = lastCall) =>
          /\ Session' = <<>> /\ currentUser' = Null
          /\ Registry' = Registry /\ Users' = Users]_vars

\* signed out of an account that holds records, and the ledger is hydrated empty
C12_Witness ==
  /\ lastCall.op = "signOut" /\ Idle
  /\ Session = <<>> /\ currentUser = Null
  /\ state = initialState
  /\ \E u \in UserIds : Users[u] /= Null /\ Users[u].expenses /= <<>>

\* C13: whenever an identity is active and no effect is pending, its stored
\* record holds the expenses and the budget of the ledger, so every add,
\* update, remove and setBudget has been written back in full.
C13_StoredMatchesLedger ==
  (currentUser /= Null /\ Idle) =>
    /\ Users[currentUser.id] /= Null
    /\ Users[currentUser.id].expenses = state.expenses
    /\ Users[currentUser.id].budget = state.monthlyBudget

\* after mutations of a signed-in user: two records and a budget
C13_Witness ==
  /\ currentUser /= Null /\ Idle /\ lastCall = NoCall
  /\ Len(state.expenses) = MaxExpenses
  /\ state.monthlyBudget = 50
  /\ Users[currentUser.id].expenses = state.expenses

\* C14: while authReady is false no LOAD_EXPENSES is dispatched, the ledger
\* stays as it is and no record or Registry entry is written; authReady
\* becomes true, and only a page reload, which mounts a new AuthProvider,
\* makes it false again.
C14_RestoreBeforeHydration ==
  /\ [][/\ ~authReady =>
             /\ hydrations' = 0 /\ state' = state
             /\ Users' = Users /\ Registry' = Registry
        /\ (authReady /\ ~authReady') => Reload]_vars
  /\ (~authReady ~> authReady)

\* restored into a stored session, then hydrated with its records
C14_Witness ==
  /\ lastCall.op = "restore" /\ Idle
  /\ currentUser /= Null /\ currentUser.id = lastCall.savedId
  /\ hydrations = 1
  /\ state.expenses /= <<>>

\* the session state changed: Restore finished, or another identity (or none)
\* became active
SessionChanged(call) ==
  \/ call.op = "restore"
  \/ Succeeded(call) /\ call.prevUser /= call.id
  \/ call.op = "signOut" /\ call.prevUser /= <<>>

\* C15: between two calls the ledger is hydrated once if the call changed the
\* session state (Restore, a sign-in, a sign-out) and not at all otherwise;
\* a hydration sets the ledger to the stored expenses and budget of the
\* active identity, or to no expenses and budget 0 when nobody is signed in.
C15_HydratedOncePerTransition ==
  [][/\ hydrations' <= 1
     /\ Idle' => hydrations' = (IF SessionChanged(lastCall') THEN 1 ELSE 0)
     /\ hydrations' > hydrations =>
          LET stored == IF currentUser' = Null THEN Null
                        ELSE Users[currentUser'.id]
          IN  /\ state'.expenses =
                   (IF stored = Null THEN <<>> ELSE stored.expenses)
              /\ state'.monthlyBudget =
                   (IF stored = Null THEN 0 ELSE stored.budget)]_vars

\* signed in to an account with records while another one was active
C15_Witness ==
  /\ Succeeded(lastCall) /\ Idle /\ hydrations = 1
  /\ lastCall.prevUser /= <<>> /\ lastCall.prevUser /= lastCall.id
  /\ ~lastCall.isNew
  /\ state.expenses /= <<>>

C17_StorageFailureContained ==
  /\ lastCall.op /= "uncaught"
  /\ \A u \in UserIds : includes(Registry, u) <=> Users[u] /= Null

\* C18: two e-mails with the same lower-cased, trimmed form get the same id.
C18_SameEmailSameId ==
  lastCall.op = "emailToUserId" =>
    (toLowerCase(trim(lastCall.email1)) = toLowerCase(trim(lastCall.email2))
       => lastCall.id1 = lastCall.id2)

\* the same address typed in another case and with blanks around it
C18_Witness ==
  /\ lastCall.op = "emailToUserId"
  /\ lastCall.email1 /= lastCall.email2
  /\ Len(lastCall.email1) /= Len(lastCall.email2)
  /\ toLowerCase(lastCall.email1) /= toLowerCase(lastCall.email2)
  /\ toLowerCase(trim(lastCall.email1)) = toLowerCase(trim(lastCall.email2))
  /\ lastCall.id1 = lastCall.id2

\* C19: two e-mails whose lower-cased, trimmed forms differ get different ids.
C19_DifferentEmailDifferentId ==
  lastCall.op = "emailToUserId" =>
    (toLowerCase(trim(lastCall.email1)) /= toLowerCase(trim(lastCall.email2))
       => lastCall.id1 /= lastCall.id2)

\* the constraints of the data model on the fields of an expense record
MeetsConstraints(formData, now, offset) ==
  /\ Len(trim(formData.title)) \in 2..80
  /\ formData.amount /= <<>>
  /\ ~isNaN(Number(formData.amount))
  /\ Number(formData.amount).value > 0
  /\ Number(formData.amount).value <= 1000000 * Milli
  /\ Number(formData.amount).value % 10 = 0
  /\ formData.date /= NoDate
  /\ formData.date.day <= localDay(now, offset)
  /\ formData.category \in CategoryValues
  /\ Len(formData.description) <= 300

\* C20: validateExpense reports a candidate as valid exactly when its title,
\* amount, date, category and description meet the constraints of the data
\* model.
C20_ValidIffConstraints ==
  lastCall.op = "validateExpense" =>
    (lastCall.result.isValid <=>
       MeetsConstraints(lastCall.formData, lastCall.now, lastCall.offset))

\* ---- C21
SumOver(f, keys) ==
  LET RECURSIVE Sum(_)
      Sum(ks) == IF ks = {} THEN 0
                 ELSE LET k == CHOOSE k \in ks : TRUE IN f[k] + Sum(ks \ {k})
  IN Sum(keys)

\* C21: the values of categoryTotals add up to the grand total, categoryTotals
\* has a key exactly for the categories of at least one record, and the
\* amounts of the records filtered by a category add up to its entry.
C21_CategoryTotalsAddUp ==
  lastCall.op = "totals" =>
    LET totals == lastCall.categoryTotals IN
    /\ SumOver(totals, DOMAIN totals) = lastCall.totalExpenses
    /\ DOMAIN totals =
         {lastCall.expenses[i].category : i \in 1..Len(lastCall.expenses)}
    /\ \A c \in DOMAIN totals :
         sumAmounts(lastCall.byCategory[c]) = totals[c]
    /\ \A c \in RecordCategories \ DOMAIN totals :
         lastCall.byCategory[c] = <<>>

C21_Witness ==
  /\ lastCall.op = "totals"
  /\ Len(lastCall.expenses) = 3
  /\ Cardinality(DOMAIN lastCall.categoryTotals) = 2
  /\ lastCall.totalExpenses = 1500

\* C22: the budget utilisation is 0 whenever the budget is not positive;
\* otherwise it is the spend of the month over the budget in percent, capped
\* at 100, so it never exceeds 100 even when the spend exceeds the budget.
C22_UtilizationCapped ==
  lastCall.op = "budgetUsedPercent" =>
    LET r == lastCall.result
        spend == lastCall.currentMonthTotal
        budget == lastCall.monthlyBudget
    IN /\ r.den > 0
       /\ budget <= 0 => r.num = 0
       /\ budget > 0 =>
            /\ r.num <= 100 * r.den
            /\ spend <= budget => r.num * budget = spend * 100 * r.den
            /\ spend > budget => r.num = 100 * r.den

C22_Witness ==
  /\ lastCall.op = "budgetUsedPercent"
  /\ lastCall.monthlyBudget = 250
  /\ lastCall.currentMonthTotal = 575
  /\ lastCall.result.num = 100 * lastCall.result.den

\* ---- C23
SameMonth(d1, d2) == d1.month = d2.month /\ d1.year = d2.year

\* C23: groupByMonth partitions the list by calendar month and year: every
\* record is in exactly one group, a group holds the records of one month of
\* one year in their incoming order, and records of the same month number of
\* different years are in different groups.
C23_GroupsPartitionByMonth ==
  lastCall.op = "groupByMonth" =>
    LET groups == lastCall.result
        expenses == lastCall.expenses
    IN /\ \A i \in 1..Len(expenses) :
            Cardinality({<<g, k>> \in (1..Len(groups)) \X (1..Len(expenses)) :
                           /\ k <= Len(groups[g].items)
                           /\ groups[g].items[k] = expenses[i]}) = 1
       /\ \A g \in 1..Len(groups) :
            /\ groups[g].items /= <<>>
            /\ groups[g].items =
                 SelectSeq(expenses,
                           LAMBDA e : SameMonth(e.date, groups[g].items[1].date))
       /\ \A g, h \in 1..Len(groups) :
            g /= h => ~SameMonth(groups[g].items[1].date, groups[h].items[1].date)

C23_Witness ==
  /\ lastCall.op = "groupByMonth"
  /\ Len(lastCall.result) = 2
  /\ Len(lastCall.result[1].items) = 2
  /\ lastCall.result[1].items[1].date.month = lastCall.result[2].items[1].date.month
  /\ lastCall.result[1].items[1].date.year /= lastCall.result[2].items[1].date.year

\* C24: add puts the new record at the front, keeps every other record in its
\* previous relative order, and so grows the collection by exactly one.
C24_AddPrepends ==
  lastCall.op = "ADD_EXPENSE" =>
    LET before == lastCall.expenses
        after == lastCall.result.expenses
    IN /\ Len(after) = Len(before) + 1
       /\ after[1] = lastCall.payload
       /\ \A i \in 1..Len(before) : after[i + 1] = before[i]

C24_Witness ==
  /\ lastCall.op = "ADD_EXPENSE"
  /\ Len(lastCall.expenses) = 2
  /\ Len(lastCall.result.expenses) = 3

\* C25: update replaces the record of the given id where it stands and changes
\* neither the length nor any other record; remove deletes the record of the
\* given id and nothing else; both leave the contents alone when no record
\* has the id.
C25_UpdateAndRemoveById ==
  LET before == lastCall.expenses
      after == lastCall.result.expenses
  IN /\ lastCall.op = "UPDATE_EXPENSE" =>
          /\ Len(after) = Len(before)
          /\ \A i \in 1..Len(before) :
               after[i] = IF before[i].id = lastCall.payload.id
                          THEN lastCall.payload ELSE before[i]
          /\ lastCall.payload.id \notin Ids(before) => after = before
     /\ lastCall.op = "DELETE_EXPENSE" =>
          /\ after = SelectSeq(before, LAMBDA e : e.id /= lastCall.payload)
          /\ Len(after) = Len(before)
                           - Cardinality({i \in 1..Len(before) :
                                            before[i].id = lastCall.payload})
          /\ lastCall.payload \notin Ids(before) => after = before

C25_Witness ==
  /\ lastCall.op = "UPDATE_EXPENSE"
  /\ Len(lastCall.expenses) = 3
  /\ lastCall.expenses[2].id = lastCall.payload.id
  /\ lastCall.result.expenses[2] = lastCall.payload
  /\ lastCall.result.expenses[2] /= lastCall.expenses[2]

\* ---- C26
ContainsIgnoringCase(text, q) ==
  \E i \in 0..(Len(text) - Len(q)) :
    \A k \in 1..Len(q) : toLowerCaseChar(text[i + k]) = toLowerCaseChar(q[k])

Passes(e, filterCategory, searchQuery) ==
  /\ filterCategory = "all" \/ e.category = filterCategory
  /\ \/ \A k \in 1..Len(searchQuery) : searchQuery[k] = " "
     \/ ContainsIgnoringCase(e.title, searchQuery)
     \/ ContainsIgnoringCase(e.description, searchQuery)

DateTuple(e) == <<e.date.year, e.date.month, e.date.day>>

\* titles in the order of the locale: the alphabet whatever the case, and of
\* two titles that differ in case alone the one in lower case first
TitleOrder(a, b) ==
  LET Letters(t) == [i \in 1..Len(t) |-> CharRank(toLowerCaseChar(t[i]))]
      Cases(t) == [i \in 1..Len(t) |-> IF t[i] \in {"A", "B", "C", "X"} THEN 1 ELSE 0]
      letters == compareRanks(Letters(a), Letters(b))
  IN IF letters /= 0 THEN letters ELSE compareRanks(Cases(a), Cases(b))

\* negative when a goes first under the sort key, 0 for a tie
KeyOrder(a, b, sortBy) ==
  CASE sortBy = "date_desc" -> compareRanks(DateTuple(b), DateTuple(a))
    [] sortBy = "date_asc" -> compareRanks(DateTuple(a), DateTuple(b))
    [] sortBy = "amount_desc" -> sign(b.amount - a.amount)
    [] sortBy = "amount_asc" -> sign(a.amount - b.amount)
    [] sortBy = "title_asc" -> TitleOrder(a.title, b.title)
    [] sortBy = "title_desc" -> TitleOrder(b.title, a.title)
    [] OTHER -> 0

PositionIn(seq, x) == CHOOSE i \in 1..Len(seq) : seq[i] = x

HydrationWriteBack ==
  /\ lastCall' = lastCall
  /\ lastCall.op \in {"restore", "signIn"}
  /\ currentUser /= Null
  /\ currentUser' = currentUser
  /\ localStorage' /= localStorage

\* C27: between a session transition (Restore of a stored session, or a
\* successful signIn) and the end of hydration no write-back replaces the
\* stored record of the identity by the ledger from before hydration: the
\* stored expenses keep every record they held.
C27_StoredSurvivesHydration ==
  [][HydrationWriteBack =>
       LET before == loadUserData(localStorage, currentUser.id)
           after == loadUserData(localStorage', currentUser.id)
       IN before /= Null =>
            /\ after /= Null
            /\ Ids(before.expenses) \subseteq Ids(after.expenses)]_vars

\* C28: the stored profile of every identity carries the credential hash of
\* its last successful sign-in; no write-back of the ledger drops or changes it.
C28_StoredHashKept ==
  \A u \in UserIds :
    (Users[u] /= Null /\ registeredHash[u] /= Undefined) =>
      Users[u].profile.passwordHash = registeredHash[u]

\* ---- C29
StoredIds(u) == IF Users[u] = Null THEN {} ELSE Ids(Users[u].expenses)

\* C29: records do not leak between identities. With sign-in only from the
\* signed-out page, no record is in the stored collections of two identities,
\* the ledger of the signed-in identity holds no record stored for another,
\* and while an identity stays signed in no step changes the stored record of
\* another identity.
C29_NoLeakBetweenIdentities ==
  /\ [](\A u, v \in UserIds : u /= v => StoredIds(u) \cap StoredIds(v) = {})
  /\ [](isAuthenticated =>
          \A u \in UserIds \ {currentUser.id} :
            Ids(state.expenses) \cap StoredIds(u) = {})
  /\ [][(isAuthenticated /\ currentUser' = currentUser) =>
          \A u \in UserIds \ {currentUser.id} : Users'[u] = Users[u]]_vars

\* B signed in after A signed out, each with a record of its own
C29_Witness ==
  /\ Idle
  /\ isAuthenticated
  /\ IsSignIn(lastCall) /\ Succeeded(lastCall)
  /\ state.expenses /= <<>>
  /\ StoredIds(currentUser.id) = Ids(state.expenses)
  /\ \E u \in UserIds \ {currentUser.id} : StoredIds(u) /= {}

\* ---- C30
DistinctIds(expenses) ==
  \A i, j \in 1..Len(expenses) : i /= j => expenses[i].id /= expenses[j].id

\* a step of the signed-in or guest page that neither adds nor removes a record
LedgerEdit ==
  /\ Idle
  /\ lastCall' = NoCall
  /\ UNCHANGED <<authReady, nextUuid>>
  /\ Len(state'.expenses) = Len(state.expenses)

\* C30: the ids of the records of the ledger are pairwise distinct, and so are
\* the ids of every stored collection, whatever adds, updates, removals,
\* guest merges and hydrations came before; an edit submitted through the
\* form leaves id and createdAt of every record as they were.
C30_IdsDistinctAndKept ==
  /\ [](DistinctIds(state.expenses))
  /\ [](\A u \in UserIds : Users[u] /= Null => DistinctIds(Users[u].expenses))
  /\ [][LedgerEdit =>
          \A i \in 1..Len(state.expenses) :
            /\ state'.expenses[i].id = state.expenses[i].id
            /\ state'.expenses[i].createdAt = state.expenses[i].createdAt]_vars

\* a guest ledger merged into a stored collection that shares a record with it
C30_Witness ==
  /\ IsSignIn(lastCall) /\ Succeeded(lastCall)
  /\ Len(lastCall.guest) = 2
  /\ Users[lastCall.id] /= Null
  /\ Len(Users[lastCall.id].expenses) = 2
  /\ ~lastCall.isNew

====
